---- MODULE Spec2Model ----
(***************************************************************************)
(* Model of the in-memory algorithms of the library system                 *)
(* (src/algorithms.py): merge sort and binary search over book records,    *)
(* the linear substring search and the best-first recommender with its two *)
(* cost functions; and of the borrowing operations of the database         *)
(* (src/database.py).                                                      *)
(*                                                                         *)
(* A Python value is a tagged record [tag, s, n]: a string is its sequence *)
(* of code points, an integer its value, None the tag "null".  A book      *)
(* (dict) is a function from field names to values; a key that is not in   *)
(* the dict is not in its DOMAIN.                                          *)
(***************************************************************************)
EXTENDS Integers, Sequences, FiniteSets, TLC

VARIABLES pc, raised,
          books, field, sorted_books, resorted_books,
          search_value, index,
          search_term, results,
          user_borrowed_books, all_books, top_n, recommendations,
          books_table, borrowing_table, call, returned,
          borrowed_book, candidate, stats, g_score, h_score,
          request, writer, uncommitted

vars == <<pc, raised, books, field, sorted_books, resorted_books,
          search_value, index, search_term, results,
          user_borrowed_books, all_books, top_n, recommendations,
          books_table, borrowing_table, call, returned,
          borrowed_book, candidate, stats, g_score, h_score,
          request, writer, uncommitted>>

sortVars == <<books, field, sorted_books, resorted_books>>
locateVars == <<search_value, index>>
findVars == <<search_term, results>>
recVars == <<user_borrowed_books, all_books, top_n, recommendations>>
dbVars == <<books_table, borrowing_table, call, returned>>
scoreVars == <<borrowed_book, candidate, stats, g_score, h_score>>
requestVars == <<request, writer, uncommitted>>

(***************************************************************************)
(* Bounds of the model.                                                    *)
(***************************************************************************)
MaxLen == 4

(***************************************************************************)
(* Python values.                                                          *)
(***************************************************************************)
Str(s) == [tag |-> "str", s |-> s, n |-> 0]
Int_(n) == [tag |-> "int", s |-> <<>>, n |-> n]
None == [tag |-> "null", s |-> <<>>, n |-> 0]

Min(a, b) == IF a <= b THEN a ELSE b
Max(a, b) == IF a >= b THEN a ELSE b
Abs(a) == IF a < 0 THEN 0 - a ELSE a

\* dict.get(key, default)
Get(book, key, default) == IF key \in DOMAIN book THEN book[key] ELSE default

\* str.lower() on the code points: only A..Z change
Lower(s) == [i \in 1..Len(s) |-> IF s[i] >= 65 /\ s[i] <= 90 THEN s[i] + 32 ELSE s[i]]

\* the decimal digits of a natural number, as code points
RECURSIVE Digits(_)
Digits(n) == IF n < 10 THEN <<48 + n>> ELSE Digits(n \div 10) \o <<48 + (n % 10)>>

\* str(value): a string is itself, an integer its decimal form, None is 'None'
PyStr(v) ==
    CASE v.tag = "str" -> v.s
      [] v.tag = "int" -> IF v.n < 0 THEN <<45>> \o Digits(0 - v.n) ELSE Digits(v.n)
      [] v.tag = "null" -> <<78, 111, 110, 101>>

\* Python's < and <= on strings: lexicographic on code points
StrLt(a, b) ==
    \/ Len(a) < Len(b) /\ \A i \in 1..Len(a) : a[i] = b[i]
    \/ \E k \in 1..Min(Len(a), Len(b)) :
          /\ a[k] < b[k]
          /\ \A i \in 1..(k - 1) : a[i] = b[i]

StrLe(a, b) == a = b \/ StrLt(a, b)

\* Python slices books[:middle], books[middle:] (middle counted from 0)
Take(seq, k) == SubSeq(seq, 1, k)
Drop(seq, k) == SubSeq(seq, k + 1, Len(seq))

(***************************************************************************)
(* merge_sort_books / merge_books                                          *)
(***************************************************************************)
\* the key merge_books compares: str(book.get(field, '')).lower()
SortKey(book, fld) == Lower(PyStr(Get(book, fld, Str(<<>>))))

\* a merge step that takes the left head only when it is strictly smaller
TakeLeftStrict(left_value, right_value) == StrLt(left_value, right_value)

\* the test of the merge step: left_value <= right_value
TakeLeft(left_value, right_value) == StrLe(left_value, right_value)

\* the while loop of merge_books and the two extend calls after it;
\* i and j count the elements already taken, as in the source
RECURSIVE MergeLoop(_, _, _, _, _, _)
MergeLoop(left, right, fld, i, j, result) ==
    IF i < Len(left) /\ j < Len(right)
    THEN IF TakeLeft(SortKey(left[i + 1], fld), SortKey(right[j + 1], fld))
         THEN MergeLoop(left, right, fld, i + 1, j, Append(result, left[i + 1]))
         ELSE MergeLoop(left, right, fld, i, j + 1, Append(result, right[j + 1]))
    ELSE result \o Drop(left, i) \o Drop(right, j)

\* a merge that forgets the rest of the right list
merge_books_no_tail(left, right, fld) ==
    LET r == MergeLoop(left, right, fld, 0, 0, <<>>)
    IN  IF Len(right) > 1 THEN Take(r, Len(r) - 1) ELSE r

merge_books(left, right, fld) == MergeLoop(left, right, fld, 0, 0, <<>>)

RECURSIVE merge_sort_books(_, _)
merge_sort_books(bs, fld) ==
    IF Len(bs) <= 1
    THEN bs
    ELSE LET middle == Len(bs) \div 2
             left_sorted == merge_sort_books(Take(bs, middle), fld)
             right_sorted == merge_sort_books(Drop(bs, middle), fld)
         IN  merge_books(left_sorted, right_sorted, fld)

(***************************************************************************)
(* Inputs of the sort: books whose title and year are present, absent or   *)
(* None, with keys that collide after lower-casing.                        *)
(***************************************************************************)
SortBookSet ==
    { [book_id |-> Int_(1), title |-> Str(<<66>>), year |-> Int_(10)],
      [book_id |-> Int_(2), title |-> Str(<<97>>), year |-> Int_(9)],
      [book_id |-> Int_(3), title |-> Str(<<98>>), year |-> Int_(10)],
      [book_id |-> Int_(4), title |-> Str(<<97, 66>>), year |-> None],
      [book_id |-> Int_(5), year |-> Int_(9)],
      [book_id |-> Int_(6), title |-> None] }

SortFields == {"title", "year", "isbn"}

SeqsUpTo(S, n) == UNION { [1..k -> S] : k \in 0..n }

NoBooks == <<>>

\* the values of the variables an operation does not use
IdleSort == books = NoBooks /\ field = "title" /\ sorted_books = NoBooks /\ resorted_books = NoBooks
IdleLocate == search_value = <<>> /\ index = -1
IdleFind == search_term = <<>> /\ results = NoBooks
IdleRec == user_borrowed_books = NoBooks /\ all_books = NoBooks /\ top_n = 0 /\ recommendations = NoBooks
IdleScore == borrowed_book = <<>> /\ candidate = <<>> /\ stats = <<>> /\ g_score = 0 /\ h_score = 0
IdleRequests == request = <<>> /\ writer = 0 /\ uncommitted = <<>>
IdleDb == books_table = <<>> /\ borrowing_table = <<>> /\ call = [op |-> "create_tables"] /\ returned = FALSE

InitSort ==
    /\ pc = "input"
    /\ raised = "none"
    /\ books \in SeqsUpTo(SortBookSet, MaxLen)
    /\ field \in SortFields
    /\ sorted_books = NoBooks
    /\ resorted_books = NoBooks
    /\ IdleLocate /\ IdleFind /\ IdleRec /\ IdleDb /\ IdleRequests /\ IdleScore

\* sorted_books = merge_sort_books(books, field)
OrderBy ==
    /\ pc = "input"
    /\ sorted_books' = merge_sort_books(books, field)
    /\ pc' = "sorted"
    /\ UNCHANGED <<requestVars, raised, books, field, resorted_books, locateVars, findVars, recVars, dbVars, scoreVars>>

\* the result sorted once more by the same field
OrderByAgain ==
    /\ pc = "sorted"
    /\ resorted_books' = merge_sort_books(sorted_books, field)
    /\ pc' = "resorted"
    /\ UNCHANGED <<requestVars, raised, books, field, sorted_books, locateVars, findVars, recVars, dbVars, scoreVars>>

NextSort == OrderBy \/ OrderByAgain

SpecSort == InitSort /\ [][NextSort]_vars

(***************************************************************************)
(* Properties of the sort                                                  *)
(***************************************************************************)
Range(seq) == { seq[i] : i \in 1..Len(seq) }
Count(seq, x) == Cardinality({ i \in 1..Len(seq) : seq[i] = x })
SameMultiset(a, b) ==
    /\ Len(a) = Len(b)
    /\ \A x \in Range(a) \cup Range(b) : Count(a, x) = Count(b, x)
Ascending(seq, fld) ==
    \A i \in 1..(Len(seq) - 1) : StrLe(SortKey(seq[i], fld), SortKey(seq[i + 1], fld))
WithKey(seq, fld, k) == SelectSeq(seq, LAMBDA b : SortKey(b, fld) = k)

\* C1: the sorted sequence holds exactly the records of the input, each as
\* often as the input does, and is in ascending order of the lower-cased
\* string form of the sort field.
C1_SortIsAscendingPermutation ==
    pc \in {"sorted", "resorted"} =>
        /\ SameMultiset(sorted_books, books)
        /\ Ascending(sorted_books, field)

\* C1 witness: an input that was out of order and has records whose keys
\* differ only in case has been sorted.
C1_Witness ==
    /\ pc = "sorted"
    /\ Len(books) >= 3
    /\ ~Ascending(books, field)
    /\ sorted_books # books
    /\ \E i, j \in 1..Len(books) :
          /\ books[i] # books[j]
          /\ SortKey(books[i], field) = SortKey(books[j], field)

\* C2: the sort is stable: the records that share a key appear in the
\* output in the order they have in the input.
C2_SortIsStable ==
    pc \in {"sorted", "resorted"} =>
        \A b \in Range(books) :
            WithKey(sorted_books, field, SortKey(b, field))
                = WithKey(books, field, SortKey(b, field))

\* C2 witness: two different records with the same key, separated in the
\* input by a record with a smaller key, have been sorted.
C2_Witness ==
    /\ pc = "sorted"
    /\ \E i, j, k \in 1..Len(books) :
          /\ i < k /\ k < j
          /\ books[i] # books[j]
          /\ SortKey(books[i], field) = SortKey(books[j], field)
          /\ StrLt(SortKey(books[k], field), SortKey(books[i], field))

\* C3: sorting the sorted sequence again by the same field changes nothing.
C3_SortIsIdempotent ==
    pc = "resorted" => resorted_books = sorted_books

\* C3 witness: a second sort has run on the result of a sort that moved
\* records and holds different records with equal keys.
C3_Witness ==
    /\ pc = "resorted"
    /\ sorted_books # books
    /\ \E i, j \in 1..Len(sorted_books) :
          /\ sorted_books[i] # sorted_books[j]
          /\ SortKey(sorted_books[i], field) = SortKey(sorted_books[j], field)

(***************************************************************************)
(* binary_search_books                                                     *)
(***************************************************************************)
\* the while loop of binary_search_books; left, right and middle count
\* from 0 as in the source.  books[middle][field] raises KeyError when the
\* key is absent and .lower() raises AttributeError on a value that is not
\* a string.
RECURSIVE BinaryLoop(_, _, _, _, _)
BinaryLoop(bs, search_lower, fld, left, right) ==
    IF left <= right
    THEN LET middle == (left + right) \div 2
             book == bs[middle + 1]
         IN  IF fld \notin DOMAIN book
             THEN [raised |-> "KeyError", index |-> -1]
             ELSE IF book[fld].tag # "str"
             THEN [raised |-> "AttributeError", index |-> -1]
             ELSE LET middle_value == Lower(book[fld].s)
                  IN  IF middle_value = search_lower
                      THEN [raised |-> "none", index |-> middle]
                      ELSE IF StrLt(middle_value, search_lower)
                      THEN BinaryLoop(bs, search_lower, fld, middle + 1, right)
                      ELSE BinaryLoop(bs, search_lower, fld, left, middle - 1)
    ELSE [raised |-> "none", index |-> -1]

\* a search whose range stops one element before the end
binary_search_books_short(bs, value, fld) ==
    BinaryLoop(bs, Lower(value), fld, 0, Len(bs) - 2)

\* a search that does not lower-case the search value
binary_search_books_no_lower(bs, value, fld) ==
    BinaryLoop(bs, value, fld, 0, Len(bs) - 1)

binary_search_books(bs, value, fld) ==
    BinaryLoop(bs, Lower(value), fld, 0, Len(bs) - 1)

(***************************************************************************)
(* Inputs of the binary search: titles and authors that collide after      *)
(* lower-casing, one book without an author and one without a title.       *)
(***************************************************************************)
LocateBookSet ==
    { [book_id |-> Int_(1), title |-> Str(<<97>>), author |-> Str(<<66>>)],
      [book_id |-> Int_(2), title |-> Str(<<65>>), author |-> Str(<<98>>)],
      [book_id |-> Int_(3), title |-> Str(<<66>>), author |-> Str(<<98>>)],
      [book_id |-> Int_(4), title |-> Str(<<97, 98>>), author |-> Str(<<97>>)],
      [book_id |-> Int_(5), title |-> Str(<<98>>)],
      [book_id |-> Int_(6), author |-> Str(<<67>>), year |-> Int_(10)] }

LocateFields == {"title", "author"}

SearchValues == { <<>>, <<97>>, <<65>>, <<98>>, <<97, 98>>, <<99>> }

InitLocate ==
    /\ pc = "input"
    /\ raised = "none"
    /\ books \in SeqsUpTo(LocateBookSet, MaxLen)
    /\ field \in LocateFields
    /\ sorted_books = NoBooks
    /\ resorted_books = NoBooks
    /\ search_value \in SearchValues
    /\ index = -1
    /\ IdleFind /\ IdleRec /\ IdleDb /\ IdleRequests /\ IdleScore

\* index = binary_search_books(sorted_books, search_value, field), on the
\* output of the sort as in compare_search_methods
Locate ==
    /\ pc = "sorted"
    /\ LET r == binary_search_books(sorted_books, search_value, field)
       IN  index' = r.index /\ raised' = r.raised
    /\ pc' = "located"
    /\ UNCHANGED <<requestVars, sortVars, search_value, findVars, recVars, dbVars, scoreVars>>

NextLocate == OrderBy \/ Locate

SpecLocate == InitLocate /\ [][NextLocate]_vars

(***************************************************************************)
(* Properties of the binary search                                         *)
(***************************************************************************)
StringValued(seq, fld) ==
    \A i \in 1..Len(seq) : fld \in DOMAIN seq[i] /\ seq[i][fld].tag = "str"

\* the positions (from 0) whose field equals the value case-insensitively
Matching(seq, fld, value) ==
    { i \in 0..(Len(seq) - 1) :
        /\ fld \in DOMAIN seq[i + 1]
        /\ seq[i + 1][fld].tag = "str"
        /\ Lower(seq[i + 1][fld].s) = Lower(value) }

SetMin(S) == CHOOSE x \in S : \A y \in S : x <= y
SetMax(S) == CHOOSE x \in S : \A y \in S : x >= y

\* C4: on a sorted sequence whose field is a string in every record, the
\* binary search returns the position of a record whose field equals the
\* search value case-insensitively when there is one, and -1 when there is
\* none.
C4_LocateFindsAMatch ==
    (pc = "located" /\ StringValued(sorted_books, field)) =>
        /\ raised = "none"
        /\ IF Matching(sorted_books, field, search_value) = {}
           THEN index = -1
           ELSE index \in Matching(sorted_books, field, search_value)

\* C4 witness: a search that found the last record of a sequence of three
\* or more, in a field whose case differs from the search value's.
C4_Witness ==
    /\ pc = "located"
    /\ StringValued(sorted_books, field)
    /\ Len(sorted_books) >= 3
    /\ index = Len(sorted_books) - 1
    /\ sorted_books[index + 1][field].s # search_value

\* C5 (as claimed): with several matching records the search returns the
\* smallest matching position.
C5_LocateReturnsFirstMatch ==
    (/\ pc = "located"
     /\ StringValued(sorted_books, field)
     /\ Cardinality(Matching(sorted_books, field, search_value)) >= 2) =>
        index = SetMin(Matching(sorted_books, field, search_value))

\* C5 (amended): with several matching records the search returns the
\* position of one of them, between the first and the last match, and not
\* always the first.
C5_LocateReturnsSomeMatch ==
    (/\ pc = "located"
     /\ StringValued(sorted_books, field)
     /\ Cardinality(Matching(sorted_books, field, search_value)) >= 2) =>
        /\ index >= SetMin(Matching(sorted_books, field, search_value))
        /\ index <= SetMax(Matching(sorted_books, field, search_value))

\* C5 witness: several records match and the search returned one that is
\* not the first of them.
C5_Witness ==
    /\ pc = "located"
    /\ StringValued(sorted_books, field)
    /\ Cardinality(Matching(sorted_books, field, search_value)) >= 2
    /\ index > SetMin(Matching(sorted_books, field, search_value))

(***************************************************************************)
(* simple_search                                                           *)
(***************************************************************************)
\* Python's `needle in hay` on strings
Contains(hay, needle) ==
    \E k \in 0..(Len(hay) - Len(needle)) : SubSeq(hay, k + 1, k + Len(needle)) = needle

SearchedKeys == <<"title", "author", "genre">>

\* search_lower in book.get(key, '').lower(): "raise" when the value has no
\* lower() (it is not a string)
KeyTest(book, key, search_lower) ==
    LET v == Get(book, key, Str(<<>>))
    IN  IF v.tag # "str" THEN "raise"
        ELSE IF Contains(Lower(v.s), search_lower) THEN "hit" ELSE "miss"

\* the body of the for loop without its continue statements: every field
\* that matches appends the book again
BookHitsNoContinue(book, search_lower) ==
    LET t == KeyTest(book, "title", search_lower)
        a == KeyTest(book, "author", search_lower)
        g == KeyTest(book, "genre", search_lower)
    IN  IF "raise" \in {t, a, g}
        THEN [raised |-> "AttributeError", hits |-> <<>>]
        ELSE [raised |-> "none",
              hits |-> (IF t = "hit" THEN <<book>> ELSE <<>>)
                       \o (IF a = "hit" THEN <<book>> ELSE <<>>)
                       \o (IF g = "hit" THEN <<book>> ELSE <<>>)]

\* the body of the for loop: title, then author, then genre; the first
\* field that matches appends the book and the later ones are not looked at
BookHits(book, search_lower) ==
    LET t == KeyTest(book, "title", search_lower)
        a == KeyTest(book, "author", search_lower)
        g == KeyTest(book, "genre", search_lower)
    IN  IF t = "raise" THEN [raised |-> "AttributeError", hits |-> <<>>]
        ELSE IF t = "hit" THEN [raised |-> "none", hits |-> <<book>>]
        ELSE IF a = "raise" THEN [raised |-> "AttributeError", hits |-> <<>>]
        ELSE IF a = "hit" THEN [raised |-> "none", hits |-> <<book>>]
        ELSE IF g = "raise" THEN [raised |-> "AttributeError", hits |-> <<>>]
        ELSE IF g = "hit" THEN [raised |-> "none", hits |-> <<book>>]
        ELSE [raised |-> "none", hits |-> <<>>]

\* the for loop of simple_search from book k (counted from 1) on
RECURSIVE SearchLoop(_, _, _, _)
SearchLoop(bs, search_lower, k, res) ==
    IF k > Len(bs)
    THEN [raised |-> "none", results |-> res]
    ELSE LET h == BookHits(bs[k], search_lower)
         IN  IF h.raised # "none"
             THEN [raised |-> h.raised, results |-> NoBooks]
             ELSE SearchLoop(bs, search_lower, k + 1, res \o h.hits)

simple_search(bs, term) == SearchLoop(bs, Lower(term), 1, <<>>)

(***************************************************************************)
(* Inputs of the substring search.  title, author and genre are strings    *)
(* (NOT NULL columns of the books table) or are not in the record.         *)
(***************************************************************************)
FindBookSet ==
    { [book_id |-> Int_(1), title |-> Str(<<65, 98>>), author |-> Str(<<99>>), genre |-> Str(<<100>>)],
      [book_id |-> Int_(2), title |-> Str(<<98>>), author |-> Str(<<97, 66>>), genre |-> Str(<<97, 98>>)],
      [book_id |-> Int_(3), title |-> Str(<<99>>), author |-> Str(<<100>>), genre |-> Str(<<66, 65>>)],
      [book_id |-> Int_(4), title |-> Str(<<97>>)],
      [book_id |-> Int_(5), author |-> Str(<<66>>), genre |-> Str(<<99, 97>>), year |-> Int_(10)] }

SearchTerms == { <<>>, <<97>>, <<65, 66>>, <<98>>, <<68>>, <<98, 97>>, <<120>> }

InitFind ==
    /\ pc = "input"
    /\ raised = "none"
    /\ books \in SeqsUpTo(FindBookSet, MaxLen)
    /\ field = "title"
    /\ sorted_books = NoBooks
    /\ resorted_books = NoBooks
    /\ search_term \in SearchTerms
    /\ results = NoBooks
    /\ IdleLocate /\ IdleRec /\ IdleDb /\ IdleRequests /\ IdleScore

\* results = simple_search(books, search_term)
Find ==
    /\ pc = "input"
    /\ LET r == simple_search(books, search_term)
       IN  results' = r.results /\ raised' = r.raised
    /\ pc' = "found"
    /\ UNCHANGED <<requestVars, sortVars, locateVars, search_term, recVars, dbVars, scoreVars>>

NextFind == Find

SpecFind == InitFind /\ [][NextFind]_vars

(***************************************************************************)
(* Properties of the substring search                                      *)
(***************************************************************************)
\* the query occurs, ignoring case, in the title, the author or the genre
\* (a field the record lacks counts as the empty string)
Mentions(book, query) ==
    \E k \in 1..Len(SearchedKeys) :
        Contains(Lower(Get(book, SearchedKeys[k], Str(<<>>)).s), Lower(query))

\* C6: the substring search returns exactly the subsequence of the input
\* records, in input order, whose title, author or genre contains the query
\* ignoring case; a record that matches in several fields appears once.
C6_FindReturnsMatchingSubsequence ==
    pc = "found" =>
        /\ raised = "none"
        /\ results = SelectSeq(books, LAMBDA b : Mentions(b, search_term))

\* C6 witness: a search that returned a record matching in two fields and
\* left out a record that does not match.
C6_Witness ==
    /\ pc = "found"
    /\ Len(results) >= 1
    /\ Len(results) < Len(books)
    /\ \E i \in 1..Len(results) :
          Cardinality({ k \in 1..Len(SearchedKeys) :
              Contains(Lower(Get(results[i], SearchedKeys[k], Str(<<>>)).s),
                       Lower(search_term)) }) >= 2

(***************************************************************************)
(* Scores.  A cost is held in units of 1/Scale, so that the halves of the  *)
(* year term (1.5 per year) and the fractions of the title term are whole  *)
(* numbers; for titles of up to three words no two different costs come    *)
(* closer than 1/6, so the order of the floating-point costs is the order  *)
(* of these numbers.                                                       *)
(***************************************************************************)
Scale == 6

Float(hundredths) == [tag |-> "float", s |-> <<>>, n |-> hundredths]

\* Python truthiness of a year: None and 0 are false
Truthy(v) == ~(v.tag = "null" \/ (v.tag = "int" /\ v.n = 0))

\* set(title.lower().split()): the maximal runs without a blank
IsBlank(c) == c = 32 \/ (c >= 9 /\ c <= 13)
WordEnd(str, i) ==
    CHOOSE j \in i..Len(str) :
        /\ j = Len(str) \/ IsBlank(str[j + 1])
        /\ \A k \in i..j : ~IsBlank(str[k])
WordsOf(str) ==
    { SubSeq(str, i, WordEnd(str, i)) :
        i \in { k \in 1..Len(str) : ~IsBlank(str[k]) /\ (k = 1 \/ IsBlank(str[k - 1])) } }

\* book.get(key, '').lower() raises AttributeError unless the value is a string
HasLower(book, key) == Get(book, key, Str(<<>>)).tag = "str"
LowerOf(book, key) == Lower(Get(book, key, Str(<<>>)).s)

\* the year term: min(15, 1.5 * |year1 - year2|), or 15 when a year is falsy
YearTerm(book1, book2) ==
    LET year1 == Get(book1, "year", Int_(2000))
        year2 == Get(book2, "year", Int_(2000))
    IN  IF Truthy(year1) /\ Truthy(year2)
        THEN Min(15 * Scale, (Abs(year1.n - year2.n) * 3 * Scale) \div 2)
        ELSE 15 * Scale

\* a title term that divides by the number of words of book2's title
TitleTermOverCandidate(book1, book2) ==
    LET title1_words == WordsOf(LowerOf(book1, "title"))
        title2_words == WordsOf(LowerOf(book2, "title"))
        common_words == title1_words \cap title2_words
    IN  IF Cardinality(title2_words) > 0
        THEN (20 * Scale * (Cardinality(title2_words) - Cardinality(common_words)))
                 \div Cardinality(title2_words)
        ELSE 20 * Scale

\* the title term: 20 * (1 - |common words| / |words of book1's title|)
TitleTerm(book1, book2) ==
    LET title1_words == WordsOf(LowerOf(book1, "title"))
        title2_words == WordsOf(LowerOf(book2, "title"))
        common_words == title1_words \cap title2_words
    IN  IF Cardinality(title1_words) > 0
        THEN (20 * Scale * (Cardinality(title1_words) - Cardinality(common_words)))
                 \div Cardinality(title1_words)
        ELSE 20 * Scale

\* calculate_book_similarity(book1, book2), book1 the borrowed book
calculate_book_similarity(book1, book2) ==
    IF \E key \in {"genre", "author", "title"} : ~HasLower(book1, key) \/ ~HasLower(book2, key)
    THEN [raised |-> "AttributeError", score |-> 0]
    ELSE [raised |-> "none",
          score |-> (IF LowerOf(book1, "genre") # LowerOf(book2, "genre") THEN 40 * Scale ELSE 0)
                    + (IF LowerOf(book1, "author") # LowerOf(book2, "author") THEN 25 * Scale ELSE 0)
                    + YearTerm(book1, book2)
                    + TitleTerm(book1, book2)]

\* all_books_stats['borrow_counts'] is built empty and never filled
borrow_counts == [id \in {} |-> 0]
all_books_stats == [borrow_counts |-> borrow_counts]

\* calculate_heuristic(book, user_preferences, all_books_stats); the
\* user_preferences are not read
calculate_heuristic(book, books_stats) ==
    LET available == Get(book, "available_copies", Int_(0))
        borrow_count == IF book["book_id"] \in DOMAIN books_stats.borrow_counts
                        THEN books_stats.borrow_counts[book["book_id"]] ELSE 0
        year == Get(book, "year", Int_(1900))
        age == 2024 - year.n
    IN  (IF available = Int_(0) THEN 20 * Scale
         ELSE IF available = Int_(1) THEN 10 * Scale ELSE 0)
        + (IF borrow_count = 0 THEN 15 * Scale
           ELSE IF borrow_count < 3 THEN 10 * Scale
           ELSE IF borrow_count < 10 THEN 5 * Scale ELSE 0)
        + (IF Truthy(year)
           THEN (IF age > 50 THEN 15 * Scale
                 ELSE IF age > 20 THEN 10 * Scale
                 ELSE IF age > 10 THEN 5 * Scale ELSE 0)
           ELSE 10 * Scale)

\* round(f_score, 2), in hundredths
Round2(f_score) == (f_score * 100 + (Scale \div 2)) \div Scale

Excellent == Str(<<69, 120, 99, 101, 108, 108, 101, 110, 116>>)
Good == Str(<<71, 111, 111, 100>>)
Fair == Str(<<70, 97, 105, 114>>)
Poor == Str(<<80, 111, 111, 114>>)

\* the labels with the test for 'Good' made before the test for 'Excellent'
match_quality_good_first(f_score) ==
    IF f_score < 50 * Scale THEN Good
    ELSE IF f_score < 30 * Scale THEN Excellent
    ELSE IF f_score < 70 * Scale THEN Fair
    ELSE Poor

match_quality(f_score) ==
    IF f_score < 30 * Scale THEN Excellent
    ELSE IF f_score < 50 * Scale THEN Good
    ELSE IF f_score < 70 * Scale THEN Fair
    ELSE Poor

(***************************************************************************)
(* The priority queue: heapq over (f_score, book_id, book) tuples.  The    *)
(* heap is a sequence; positions count from 0 as in heapq.                 *)
(***************************************************************************)
\* a comparison by the cost alone
TupleLessByCost(a, b) == IF a.f < b.f THEN "less" ELSE "notless"

\* tuple comparison a < b: the first differing component decides; with equal
\* cost and identifier two different dicts are compared, which raises
\* TypeError
TupleLess(a, b) ==
    IF a.f # b.f THEN (IF a.f < b.f THEN "less" ELSE "notless")
    ELSE IF a.book_id # b.book_id
    THEN (IF a.book_id.tag = "int" /\ b.book_id.tag = "int"
          THEN (IF a.book_id.n < b.book_id.n THEN "less" ELSE "notless")
          ELSE IF a.book_id.tag = "str" /\ b.book_id.tag = "str"
          THEN (IF StrLt(a.book_id.s, b.book_id.s) THEN "less" ELSE "notless")
          ELSE "raise")
    ELSE IF a.book = b.book THEN "notless"
    ELSE "raise"

HeapAt(heap, pos) == heap[pos + 1]
HeapSet(heap, pos, item) == [heap EXCEPT ![pos + 1] = item]

\* heapq._siftdown(heap, startpos, pos), newitem being the item lifted
RECURSIVE SiftDown(_, _, _, _)
SiftDown(heap, startpos, pos, newitem) ==
    IF pos > startpos
    THEN LET parentpos == (pos - 1) \div 2
             parent == HeapAt(heap, parentpos)
             c == TupleLess(newitem, parent)
         IN  IF c = "raise" THEN [raised |-> "TypeError", heap |-> heap]
             ELSE IF c = "less"
             THEN SiftDown(HeapSet(heap, pos, parent), startpos, parentpos, newitem)
             ELSE [raised |-> "none", heap |-> HeapSet(heap, pos, newitem)]
    ELSE [raised |-> "none", heap |-> HeapSet(heap, pos, newitem)]

\* heapq._siftup(heap, pos): the smaller child moves up until a leaf is
\* reached, then the item is sifted down from there
RECURSIVE SiftUpLoop(_, _, _, _)
SiftUpLoop(heap, startpos, pos, newitem) ==
    LET endpos == Len(heap)
        leftpos == 2 * pos + 1
        rightpos == leftpos + 1
    IN  IF leftpos < endpos
        THEN LET c == IF rightpos < endpos
                      THEN TupleLess(HeapAt(heap, leftpos), HeapAt(heap, rightpos))
                      ELSE "less"
                 childpos == IF c = "less" THEN leftpos ELSE rightpos
             IN  IF c = "raise" THEN [raised |-> "TypeError", heap |-> heap]
                 ELSE SiftUpLoop(HeapSet(heap, pos, HeapAt(heap, childpos)),
                                 startpos, childpos, newitem)
        ELSE SiftDown(HeapSet(heap, pos, newitem), startpos, pos, newitem)

\* a push that appends to the list and does not restore the heap order
heappush_no_sift(heap, item) == [raised |-> "none", heap |-> Append(heap, item)]

\* heapq.heappush(heap, item)
heappush(heap, item) == SiftDown(Append(heap, item), 0, Len(heap), item)

\* a pop that takes the last element of the list instead of the smallest
heappop_last(heap) ==
    [raised |-> "none", heap |-> Take(heap, Len(heap) - 1), item |-> heap[Len(heap)]]

\* heapq.heappop(heap), for a heap that is not empty
heappop(heap) ==
    LET lastelt == heap[Len(heap)]
        rest == Take(heap, Len(heap) - 1)
    IN  IF rest # <<>>
        THEN LET r == SiftUpLoop(HeapSet(rest, 0, lastelt), 0, 0, lastelt)
             IN  [raised |-> r.raised, heap |-> r.heap, item |-> rest[1]]
        ELSE [raised |-> "none", heap |-> rest, item |-> lastelt]

(***************************************************************************)
(* astar_book_recommendations                                              *)
(***************************************************************************)
\* the fallback for an empty history: the stable sort of sorted(..., key=year,
\* reverse=True), which keeps equal years in their input order
RECURSIVE SortedByYearDesc(_)
SortedByYearDesc(seq) ==
    IF seq = <<>> THEN <<>>
    ELSE LET front == SortedByYearDesc(Take(seq, Len(seq) - 1))
             x == seq[Len(seq)]
             key(b) == Get(b, "year", Int_(0)).n
             k == Cardinality({ i \in 1..Len(front) : key(front[i]) >= key(x) })
         IN  Take(front, k) \o <<x>> \o Drop(front, k)

\* the slice seq[:n]: a negative n counts from the end
SliceTo(seq, n) ==
    IF n >= 0 THEN Take(seq, Min(n, Len(seq))) ELSE Take(seq, Max(0, Len(seq) + n))

\* lines 421-422: the books with a copy available, newest first, cut at
\* top_n.  None > 0 raises TypeError, and so does the comparison of a None
\* year with any other year, which sorted() makes as soon as there are two
\* books to sort.
MostRecentAvailable(pool, n) ==
    IF \E i \in 1..Len(pool) : Get(pool[i], "available_copies", Int_(0)).tag # "int"
    THEN [raised |-> "TypeError", recommendations |-> NoBooks]
    ELSE LET available == SelectSeq(pool, LAMBDA b : Get(b, "available_copies", Int_(0)).n > 0)
         IN  IF Len(available) >= 2
                /\ \E i \in 1..Len(available) : Get(available[i], "year", Int_(0)).tag # "int"
             THEN [raised |-> "TypeError", recommendations |-> NoBooks]
             ELSE [raised |-> "none",
                   recommendations |-> SliceTo(SortedByYearDesc(available), n)]

\* line 454 with the set comprehension of line 449 replaced by a test on
\* the records themselves
AlreadyBorrowedRecord(book, borrowed) ==
    \E i \in 1..Len(borrowed) : borrowed[i] = book

\* lines 449 and 454: book['book_id'] in borrowed_ids
AlreadyBorrowed(book, borrowed) ==
    \E i \in 1..Len(borrowed) : borrowed[i]["book_id"] = book["book_id"]

\* lines 459-464: the smallest similarity cost to a borrowed book
RECURSIVE MinSimilarity(_, _, _, _)
MinSimilarity(borrowed, book, k, best) ==
    IF k > Len(borrowed) THEN [raised |-> "none", score |-> best]
    ELSE LET sim == calculate_book_similarity(borrowed[k], book)
         IN  IF sim.raised # "none" THEN sim
             ELSE MinSimilarity(borrowed, book, k + 1,
                                IF k = 1 THEN sim.score ELSE Min(best, sim.score))

\* a total cost that compares the candidate with the first borrowed book only
TotalCostFirstOnly(borrowed, book) ==
    LET g == calculate_book_similarity(borrowed[1], book)
    IN  [raised |-> g.raised, f_score |-> g.score + calculate_heuristic(book, all_books_stats)]

\* lines 457-470: f(n) = g(n) + h(n)
TotalCost(borrowed, book) ==
    LET g == MinSimilarity(borrowed, book, 1, 50 * Scale)
    IN  [raised |-> g.raised, f_score |-> g.score + calculate_heuristic(book, all_books_stats)]

\* lines 452-473: the loop over all_books, from book k (counted from 1) on
RECURSIVE EvaluateLoop(_, _, _, _)
EvaluateLoop(borrowed, pool, k, priority_queue) ==
    IF k > Len(pool) THEN [raised |-> "none", heap |-> priority_queue]
    ELSE IF "book_id" \notin DOMAIN pool[k]
    THEN [raised |-> "KeyError", heap |-> priority_queue]
    ELSE IF AlreadyBorrowed(pool[k], borrowed)
    THEN EvaluateLoop(borrowed, pool, k + 1, priority_queue)
    ELSE LET t == TotalCost(borrowed, pool[k])
             pushed == heappush(priority_queue,
                                [f |-> t.f_score, book_id |-> pool[k]["book_id"], book |-> pool[k],
                                 at |-> k])
         IN  IF t.raised # "none" THEN [raised |-> t.raised, heap |-> priority_queue]
             ELSE IF pushed.raised # "none" THEN pushed
             ELSE EvaluateLoop(borrowed, pool, k + 1, pushed.heap)

\* lines 481-485: the copy of the book with its score and its label
WithScore(book, f_score) ==
    [key \in DOMAIN book \cup {"recommendation_score", "match_quality"} |->
        IF key = "recommendation_score" THEN Float(Round2(f_score))
        ELSE IF key = "match_quality" THEN match_quality(f_score)
        ELSE book[key]]

\* the dict that lines 482-485 write into, as its place in the pool: the popped
\* book itself, not a copy of it
book_alias(at) == at

\* line 481, book.copy(): a new dict, which is no dict of the pool (place 0)
book_copy(at) == 0

\* lines 481-485: the dicts of the pool after the score and the label are
\* written into book_with_score
Annotated(pool, at, f_score) ==
    LET book_with_score == book_copy(at)
    IN  IF book_with_score = 0 THEN pool
        ELSE [pool EXCEPT ![book_with_score] = WithScore(pool[at], f_score)]

\* lines 476-489: pop until the queue is empty or top_n books are taken; the
\* items of the queue refer to the dicts of the pool (item.at is the place of
\* item.book in it)
RECURSIVE ExtractLoop(_, _, _, _)
ExtractLoop(priority_queue, n, recs, pool) ==
    IF priority_queue # <<>> /\ Len(recs) < n
    THEN LET popped == heappop(priority_queue)
         IN  IF popped.raised # "none"
             THEN [raised |-> popped.raised, recommendations |-> NoBooks, all_books |-> pool]
             ELSE ExtractLoop(popped.heap, n,
                              Append(recs, WithScore(popped.item.book, popped.item.f)),
                              Annotated(pool, popped.item.at, popped.item.f))
    ELSE [raised |-> "none", recommendations |-> recs, all_books |-> pool]

\* the result, and the dicts of all_books as the call leaves them
astar_book_recommendations(borrowed, pool, n) ==
    IF borrowed = <<>>
    THEN LET recent == MostRecentAvailable(pool, n)
         IN  [raised |-> recent.raised, recommendations |-> recent.recommendations,
              all_books |-> pool]
    ELSE IF \E i \in 1..Len(borrowed) : ~HasLower(borrowed[i], "genre") \/ ~HasLower(borrowed[i], "author")
    THEN [raised |-> "AttributeError", recommendations |-> NoBooks, all_books |-> pool]
    ELSE IF \E i \in 1..Len(borrowed) : "book_id" \notin DOMAIN borrowed[i]
    THEN [raised |-> "KeyError", recommendations |-> NoBooks, all_books |-> pool]
    ELSE LET evaluated == EvaluateLoop(borrowed, pool, 1, <<>>)
         IN  IF evaluated.raised # "none"
             THEN [raised |-> evaluated.raised, recommendations |-> NoBooks, all_books |-> pool]
             ELSE ExtractLoop(evaluated.heap, n, <<>>, pool)

(***************************************************************************)
(* Inputs of the recommender: rows of the books table (title, author and   *)
(* genre are strings, year may be None) and records that lack a field, as  *)
(* the borrowed book of the demonstration lacks available_copies.          *)
(***************************************************************************)
HarryPotter == <<72, 97, 114, 114, 121, 32, 80, 111, 116, 116, 101, 114>>
Harry == <<72, 97, 114, 114, 121>>
Rowling == <<82, 111, 119, 108, 105, 110, 103>>
Fantasy == <<70, 97, 110, 116, 97, 115, 121>>
fantasy == <<102, 97, 110, 116, 97, 115, 121>>
Orwell == <<79, 114, 119, 101, 108, 108>>
Fiction == <<70, 105, 99, 116, 105, 111, 110>>
T1984 == <<49, 57, 56, 52>>
TheHobbit == <<84, 104, 101, 32, 72, 111, 98, 98, 105, 116>>
Tolkien == <<84, 111, 108, 107, 105, 101, 110>>
TheTwoTowers == <<84, 104, 101, 32, 84, 119, 111, 32, 84, 111, 119, 101, 114, 115>>

Book(id, title, author, genre, year, copies) ==
    [book_id |-> Int_(id), title |-> Str(title), author |-> Str(author),
     genre |-> Str(genre), year |-> year, available_copies |-> Int_(copies)]

Without(book, key) == [k \in DOMAIN book \ {key} |-> book[k]]

Catalogue ==
    { Book(1, HarryPotter, Rowling, Fantasy, Int_(1997), 3),
      Book(2, HarryPotter, Rowling, fantasy, Int_(1997), 3),
      Book(3, TheHobbit, Rowling, Fantasy, Int_(1997), 3),
      Book(4, T1984, Orwell, Fiction, Int_(1949), 0),
      Book(5, TheHobbit, Tolkien, Fantasy, None, 1),
      Without(Without(Book(6, Harry, Rowling, Fantasy, None, 0), "year"), "available_copies"),
      Book(7, Harry, Rowling, Fantasy, Int_(1997), 3) }

\* the borrowed book of the scenario: no available_copies, as in the demonstration
BorrowedHarryPotter ==
    Without(Book(1, HarryPotter, Rowling, Fantasy, Int_(1997), 0), "available_copies")

Histories ==
    { BorrowedHarryPotter,
      Book(8, TheTwoTowers, Tolkien, Fantasy, None, 1) }

MaxPool == 3
MaxHistory == 2
MaxTopN == 3

\* candidate pools: rows of one table, so no book occurs twice
Pools ==
    { p \in SeqsUpTo(Catalogue, MaxPool) : \A i, j \in 1..Len(p) : i # j => p[i] # p[j] }

\* borrowing histories: the books a user has borrowed, each listed once
BorrowingHistories ==
    { h \in SeqsUpTo(Histories, MaxHistory) : \A i, j \in 1..Len(h) : i # j => h[i] # h[j] }

InitRecommend ==
    /\ pc = "input"
    /\ raised = "none"
    /\ user_borrowed_books \in BorrowingHistories
    /\ all_books \in Pools
    /\ top_n \in 0..MaxTopN
    /\ recommendations = NoBooks
    /\ IdleSort /\ IdleLocate /\ IdleFind /\ IdleDb /\ IdleRequests /\ IdleScore

\* recommendations = astar_book_recommendations(user_borrowed_books, all_books, top_n)
Recommend ==
    /\ pc = "input"
    /\ LET r == astar_book_recommendations(user_borrowed_books, all_books, top_n)
       IN  recommendations' = r.recommendations /\ raised' = r.raised /\ all_books' = r.all_books
    /\ pc' = "recommended"
    /\ UNCHANGED <<requestVars, sortVars, locateVars, findVars, user_borrowed_books, top_n, dbVars, scoreVars>>

NextRecommend == Recommend

SpecRecommend == InitRecommend /\ [][NextRecommend]_vars

(***************************************************************************)
(* Properties of the recommender                                           *)
(***************************************************************************)
BorrowedIds == { user_borrowed_books[i]["book_id"] : i \in 1..Len(user_borrowed_books) }

\* the candidate a result was copied from
Unscored(rec) == Without(Without(rec, "recommendation_score"), "match_quality")

\* C7: no returned record has the identifier of a record of the history.
C7_NeverRecommendsBorrowed ==
    pc = "recommended" =>
        \A i \in 1..Len(recommendations) : recommendations[i]["book_id"] \notin BorrowedIds

\* C7 witness: the pool held a book with the identifier of a borrowed book
\* but not the same fields, top_n left room for every candidate, and the
\* others were returned.
C7_Witness ==
    /\ pc = "recommended"
    /\ raised = "none"
    /\ \E i \in 1..Len(all_books) :
          /\ all_books[i]["book_id"] \in BorrowedIds
          /\ all_books[i] \notin Range(user_borrowed_books)
    /\ top_n >= Len(all_books)
    /\ Len(recommendations) >= 2

\* C8: with a non-empty history the scores of the results never decrease
\* along the result, neither the total costs nor the annotated scores.
C8_ScoresNonDecreasing ==
    (pc = "recommended" /\ user_borrowed_books # <<>>) =>
        \A i \in 1..(Len(recommendations) - 1) :
            /\ recommendations[i]["recommendation_score"].n
                   <= recommendations[i + 1]["recommendation_score"].n
            /\ TotalCost(user_borrowed_books, Unscored(recommendations[i])).f_score
                   <= TotalCost(user_borrowed_books, Unscored(recommendations[i + 1])).f_score

\* C8 witness: three results of different cost were returned, and the
\* cheapest of them was the last of the pool.
C8_Witness ==
    /\ pc = "recommended"
    /\ user_borrowed_books # <<>>
    /\ Len(recommendations) >= 3
    /\ recommendations[1]["recommendation_score"].n < recommendations[2]["recommendation_score"].n
    /\ recommendations[2]["recommendation_score"].n < recommendations[3]["recommendation_score"].n
    /\ Unscored(recommendations[1]) = all_books[Len(all_books)]

\* the scenario: the history is the one borrowed book 'Harry Potter'
\* (Fantasy, Rowling, 1997) and the result is a copy of a candidate with
\* another identifier, the same genre and author, year 1997 and 3 copies
InScenario(rec) ==
    /\ user_borrowed_books = <<BorrowedHarryPotter>>
    /\ rec["book_id"] # BorrowedHarryPotter["book_id"]
    /\ Lower(rec["genre"].s) = Lower(Fantasy)
    /\ Lower(rec["author"].s) = Lower(Rowling)
    /\ Get(rec, "year", None) = Int_(1997)
    /\ Get(rec, "available_copies", None) = Int_(3)

\* the words of the borrowed title that the candidate's title lacks
MissingWords(rec) ==
    Cardinality(WordsOf(Lower(HarryPotter)) \ WordsOf(Lower(rec["title"].s)))

\* C9 (as claimed): the candidate of the scenario is scored at most 10 and
\* labelled 'Excellent'.
C9_ScenarioCostAtMostTen ==
    pc = "recommended" =>
        \A i \in 1..Len(recommendations) :
            InScenario(recommendations[i]) =>
                /\ recommendations[i]["recommendation_score"].n <= 10 * 100
                /\ recommendations[i]["match_quality"] = Excellent

\* C9 (amended): the candidate of the scenario is scored 25 (popularity 15,
\* age 10) plus 10 for each of the words 'harry' and 'potter' its title
\* lacks; it is 'Excellent' when the title has both words and 'Good'
\* otherwise.
C9_ScenarioCost ==
    pc = "recommended" =>
        \A i \in 1..Len(recommendations) :
            InScenario(recommendations[i]) =>
                /\ recommendations[i]["recommendation_score"].n
                       = (25 + 10 * MissingWords(recommendations[i])) * 100
                /\ recommendations[i]["match_quality"]
                       = IF MissingWords(recommendations[i]) = 0 THEN Excellent ELSE Good

\* C9 witness: the scenario returned a candidate with the borrowed title,
\* one with one of its words and one with none.
C9_Witness ==
    /\ pc = "recommended"
    /\ \A k \in 0..2 :
          \E i \in 1..Len(recommendations) :
              InScenario(recommendations[i]) /\ MissingWords(recommendations[i]) = k

\* the candidates with at least one available copy
Available == SelectSeq(all_books, LAMBDA b : Get(b, "available_copies", Int_(0)).n > 0)
YearOf(b) == Get(b, "year", Int_(0)).n

\* C10 (as claimed): with an empty history the result is the
\* min(top_n, number of available candidates) available candidates of the
\* highest year, in descending order of year.
C10_EmptyHistoryMostRecent ==
    (pc = "recommended" /\ user_borrowed_books = <<>>) =>
        /\ raised = "none"
        /\ Len(recommendations) = Min(top_n, Len(Available))
        /\ \A i \in 1..Len(recommendations) :
              Count(recommendations, recommendations[i]) = 1
              /\ recommendations[i] \in Range(Available)
        /\ \A i \in 1..(Len(recommendations) - 1) :
              YearOf(recommendations[i]) >= YearOf(recommendations[i + 1])
        /\ \A b \in Range(Available) \ Range(recommendations) :
              \A i \in 1..Len(recommendations) : YearOf(b) <= YearOf(recommendations[i])

\* the candidates whose identifier is not the identifier of a borrowed book
Eligible == SelectSeq(all_books, LAMBDA b : b["book_id"] \notin BorrowedIds)

\* the total cost the recommender gives a candidate, in units of 1/Scale
CostOf(b) == TotalCost(user_borrowed_books, b).f_score

\* C11: with a non-empty history the result has exactly min(top_n, E)
\* records, E the number of candidates not in the history, and no eligible
\* candidate left out costs strictly less than a returned one.
C11_ReturnsLowestCost ==
    (pc = "recommended" /\ user_borrowed_books # <<>>) =>
        /\ raised = "none"
        /\ Len(recommendations) = Min(top_n, Len(Eligible))
        /\ \A i \in 1..Len(recommendations) :
              /\ Unscored(recommendations[i]) \in Range(Eligible)
              /\ Count(recommendations, recommendations[i]) = 1
        /\ \A b \in Range(Eligible) :
              b \notin { Unscored(recommendations[i]) : i \in 1..Len(recommendations) } =>
                  \A i \in 1..Len(recommendations) :
                      CostOf(b) >= CostOf(Unscored(recommendations[i]))

\* C11 witness: top_n was smaller than the number of eligible candidates,
\* a borrowed book was in the pool, and the candidate left out was the first
\* of the pool and cost strictly more than those returned.
C11_Witness ==
    /\ pc = "recommended"
    /\ user_borrowed_books # <<>>
    /\ Len(Eligible) < Len(all_books)
    /\ top_n >= 1
    /\ top_n < Len(Eligible)
    /\ Len(recommendations) = top_n
    /\ all_books[1] \in Range(Eligible)
    /\ \A i \in 1..Len(recommendations) :
          /\ Unscored(recommendations[i]) # all_books[1]
          /\ CostOf(all_books[1]) > CostOf(Unscored(recommendations[i]))

\* C12 (as claimed): every returned record, with an empty history too,
\* carries a recommendation_score and a match_quality.
C12_EveryResultAnnotated ==
    pc = "recommended" =>
        \A i \in 1..Len(recommendations) :
            /\ "recommendation_score" \in DOMAIN recommendations[i]
            /\ "match_quality" \in DOMAIN recommendations[i]

\* C13: the label of a result popped from the queue follows from its total
\* cost alone: 'Excellent' below 30, 'Good' from 30 and below 50, 'Fair'
\* from 50 and below 70, 'Poor' from 70.
C13_LabelFollowsCost ==
    (pc = "recommended" /\ user_borrowed_books # <<>>) =>
        \A i \in 1..Len(recommendations) :
            LET cost == CostOf(Unscored(recommendations[i]))
                label == recommendations[i]["match_quality"]
            IN  /\ (cost < 30 * Scale) <=> (label = Excellent)
                /\ (cost >= 30 * Scale /\ cost < 50 * Scale) <=> (label = Good)
                /\ (cost >= 50 * Scale /\ cost < 70 * Scale) <=> (label = Fair)
                /\ (cost >= 70 * Scale) <=> (label = Poor)

\* C13 witness: one result holds an 'Excellent', a 'Fair' and a 'Poor'
\* record, another a 'Good' one.
C13_Witness ==
    /\ pc = "recommended"
    /\ user_borrowed_books # <<>>
    /\ \/ \A label \in {Excellent, Fair, Poor} :
             \E i \in 1..Len(recommendations) : recommendations[i]["match_quality"] = label
       \/ \A label \in {Good, Fair, Poor} :
             \E i \in 1..Len(recommendations) : recommendations[i]["match_quality"] = label

\* ---------------------------------------------------------------------------
\* C14  No core operation aborts: whatever the records hold (a field absent or
\*      null, empty sequences, unsorted input), a call ends without raising.
\*      Evaluated for binary_search_books in SpecLocate, where LocateBookSet
\*      holds a record without the searched field.
C14_NoOperationAborts == raised = "none"

(***************************************************************************)
(* The database (src/database.py).  The books table is the sequence of its *)
(* rows by book_id and the borrowing table the sequence of its rows by     *)
(* borrow_id: both keys are AUTOINCREMENT and no row is ever deleted.  A   *)
(* row keeps the columns that borrow_book and return_book read or write.   *)
(* Here every operation runs alone, from its connect to its commit.        *)
(***************************************************************************)
MaxBooks == 2
MaxBorrowings == 2
MaxCopies == 1
MaxAvailable == 2

\* INSERT INTO books (..., available_copies, total_copies) VALUES (..., copies, copies)
add_book(bt, copies) ==
    [returned |-> Len(bt) + 1,
     books |-> Append(bt, [available_copies |-> copies, total_copies |-> copies])]

\* the check of line 274 with "< 0" for "<= 0"
borrow_book_unchecked(bt, br, user_id, book_id) ==
    IF book_id \notin DOMAIN bt \/ bt[book_id].available_copies < 0
    THEN [returned |-> FALSE, books |-> bt, borrowing |-> br]
    ELSE [returned |-> TRUE,
          books |-> [bt EXCEPT ![book_id].available_copies = @ - 1],
          borrowing |-> Append(br, [user_id |-> user_id, book_id |-> book_id,
                                    status |-> "borrowed"])]

borrow_book(bt, br, user_id, book_id) ==
    IF book_id \notin DOMAIN bt \/ bt[book_id].available_copies <= 0
    THEN [returned |-> FALSE, books |-> bt, borrowing |-> br]
    ELSE [returned |-> TRUE,
          books |-> [bt EXCEPT ![book_id].available_copies = @ - 1],
          borrowing |-> Append(br, [user_id |-> user_id, book_id |-> book_id,
                                    status |-> "borrowed"])]

return_book(bt, br, borrow_id) ==
    IF borrow_id \notin DOMAIN br
    THEN [returned |-> FALSE, books |-> bt, borrowing |-> br]
    ELSE LET book_id == br[borrow_id].book_id
         IN  [returned |-> TRUE,
              books |-> [bt EXCEPT ![book_id].available_copies = @ + 1],
              borrowing |-> [br EXCEPT ![borrow_id].status = "returned"]]

\* the arguments of the calls: copies as int() of the form field, identifiers
\* of rows that exist and of one that does not
Copies == -1 .. MaxCopies
UserIds == {1, 2}
BookIds == 1 .. MaxBooks + 1
BorrowIds == 1 .. MaxBorrowings + 1

InitDb ==
    /\ pc = "ready"
    /\ raised = "none"
    /\ IdleSort /\ IdleLocate /\ IdleFind /\ IdleRec /\ IdleDb /\ IdleRequests /\ IdleScore

AddBook ==
    /\ pc = "ready"
    /\ Len(books_table) < MaxBooks
    /\ \E copies \in Copies :
         LET r == add_book(books_table, copies)
         IN  /\ books_table' = r.books
             /\ returned' = r.returned
             /\ call' = [op |-> "add_book", copies |-> copies]
    /\ UNCHANGED <<requestVars, pc, raised, sortVars, locateVars, findVars, recVars, scoreVars, borrowing_table>>

BorrowBook ==
    /\ pc = "ready"
    /\ Len(borrowing_table) < MaxBorrowings
    /\ \E user_id \in UserIds, book_id \in BookIds :
         LET r == borrow_book(books_table, borrowing_table, user_id, book_id)
         IN  /\ books_table' = r.books
             /\ borrowing_table' = r.borrowing
             /\ returned' = r.returned
             /\ call' = [op |-> "borrow_book", user_id |-> user_id, book_id |-> book_id]
    /\ UNCHANGED <<requestVars, pc, raised, sortVars, locateVars, findVars, recVars, scoreVars>>

ReturnBook ==
    /\ pc = "ready"
    /\ \E borrow_id \in BorrowIds :
         /\ borrow_id \in DOMAIN borrowing_table =>
              books_table[borrowing_table[borrow_id].book_id].available_copies < MaxAvailable
         /\ LET r == return_book(books_table, borrowing_table, borrow_id)
            IN  /\ books_table' = r.books
                /\ borrowing_table' = r.borrowing
                /\ returned' = r.returned
                /\ call' = [op |-> "return_book", borrow_id |-> borrow_id]
    /\ UNCHANGED <<requestVars, pc, raised, sortVars, locateVars, findVars, recVars, scoreVars>>

NextDb == AddBook \/ BorrowBook \/ ReturnBook

SpecDb == InitDb /\ [][NextDb]_vars

\* ---------------------------------------------------------------------------
\* C15  borrow_book(user_id, book_id) returns False and changes neither table
\*      when the book does not exist or has available_copies <= 0; otherwise
\*      it returns True, appends exactly one borrowing row (user_id, book_id,
\*      'borrowed'), takes exactly 1 from that book's available_copies and
\*      changes no other book and no other borrowing row.
BorrowStep == call'.op = "borrow_book"

OtherBooksKept(book_id) ==
    /\ Len(books_table') = Len(books_table)
    /\ \A other \in DOMAIN books_table : other # book_id => books_table'[other] = books_table[other]

C15_BorrowContract ==
    [][BorrowStep =>
        LET user_id == call'.user_id
            book_id == call'.book_id
        IN  IF book_id > Len(books_table) \/ books_table[book_id].available_copies < 1
            THEN /\ returned' = FALSE
                 /\ books_table' = books_table
                 /\ borrowing_table' = borrowing_table
            ELSE /\ returned' = TRUE
                 /\ Len(borrowing_table') = Len(borrowing_table) + 1
                 /\ \A id \in DOMAIN borrowing_table : borrowing_table'[id] = borrowing_table[id]
                 /\ borrowing_table'[Len(borrowing_table')] =
                        [user_id |-> user_id, book_id |-> book_id, status |-> "borrowed"]
                 /\ books_table'[book_id].available_copies = books_table[book_id].available_copies - 1
                 /\ books_table'[book_id].total_copies = books_table[book_id].total_copies
                 /\ OtherBooksKept(book_id)]_vars

\* a second borrowing succeeded while the table holds another book
C15_Witness ==
    /\ call.op = "borrow_book"
    /\ returned = TRUE
    /\ Len(books_table) = 2
    /\ Len(borrowing_table) = 2

\* ---------------------------------------------------------------------------
\* C16  With a non-empty history, the cost that ranks a candidate is the
\*      smallest of its similarity costs to the borrowed books plus its
\*      heuristic cost: the result is in non-decreasing order of that sum,
\*      and each recommendation_score is that sum rounded to two decimals
\*      (the hundredths nearest to it).
SimilarityCosts(b) ==
    { calculate_book_similarity(user_borrowed_books[k], b).score :
        k \in 1..Len(user_borrowed_books) }

ClosestPlusHeuristic(b) == SetMin(SimilarityCosts(b)) + calculate_heuristic(b, all_books_stats)

C16_CostIsClosestPlusHeuristic ==
    (pc = "recommended" /\ user_borrowed_books # <<>>) =>
        /\ \A i \in 1..Len(recommendations) :
              LET total == ClosestPlusHeuristic(Unscored(recommendations[i]))
                  score == recommendations[i]["recommendation_score"]
              IN  /\ score.tag = "float"
                  /\ 2 * Abs(score.n * Scale - 100 * total) <= Scale
        /\ \A i \in 1..(Len(recommendations) - 1) :
              ClosestPlusHeuristic(Unscored(recommendations[i]))
                  <= ClosestPlusHeuristic(Unscored(recommendations[i + 1]))

\* C16 witness: two borrowed books, and a returned candidate that is closer to
\* the second than to the first and whose cost is not a whole number of
\* hundredths
C16_Witness ==
    /\ pc = "recommended"
    /\ Len(user_borrowed_books) = 2
    /\ \E i \in 1..Len(recommendations) :
          LET b == Unscored(recommendations[i])
              total == ClosestPlusHeuristic(b)
          IN  /\ calculate_book_similarity(user_borrowed_books[2], b).score
                    < calculate_book_similarity(user_borrowed_books[1], b).score
              /\ (100 * total) % Scale # 0

(***************************************************************************)
(* The two cost functions on their own: calculate_book_similarity applied  *)
(* to one borrowed book and one candidate, calculate_heuristic applied to  *)
(* the candidate and the statistics.                                       *)
(***************************************************************************)
\* a field left out of a record
Absent == [tag |-> "absent", s |-> <<>>, n |-> 0]
Record(fields) == [key \in { k \in DOMAIN fields : fields[k] # Absent } |-> fields[key]]

rowling == <<114, 111, 119, 108, 105, 110, 103>>

BorrowedYears == { Int_(0), Int_(1997), None, Absent }
BorrowedTitles == { Str(HarryPotter), Str(TheTwoTowers), Str(<<>>) }
BorrowedBooks ==
    { Record([book_id |-> Int_(1), title |-> title, author |-> Str(Rowling),
              genre |-> Str(Fantasy), year |-> year]) :
        title \in BorrowedTitles, year \in BorrowedYears }

CandidateGenres == { Str(Fantasy), Str(fantasy), Str(Fiction) }
CandidateAuthors == { Str(Rowling), Str(rowling), Str(Orwell) }
CandidateTitles == { Str(HarryPotter), Str(Harry), Str(TheHobbit) }
CandidateYears ==
    { Int_(0), Int_(5), Int_(1973), Int_(1974), Int_(1997), Int_(2000), Int_(2003),
      Int_(2004), Int_(2005), Int_(2013), Int_(2014), None, Absent }
CandidateCopies == { Int_(0), Int_(1), Int_(3), Absent }
Candidates ==
    { Record([book_id |-> Int_(2), title |-> title, author |-> author, genre |-> genre,
              year |-> year, available_copies |-> copies]) :
        title \in CandidateTitles, author \in CandidateAuthors, genre \in CandidateGenres,
        year \in CandidateYears, copies \in CandidateCopies }

\* the statistics: no count for the candidate, or a count on either side of 3 and 10
BorrowCounts == { 0, 2, 3, 9, 10 }
StatsSet ==
    { all_books_stats } \cup { [borrow_counts |-> [id \in { Int_(2) } |-> n]] : n \in BorrowCounts }

InitScore ==
    /\ pc = "input"
    /\ raised = "none"
    /\ borrowed_book \in BorrowedBooks
    /\ candidate \in Candidates
    /\ stats \in StatsSet
    /\ g_score = 0
    /\ h_score = 0
    /\ IdleSort /\ IdleLocate /\ IdleFind /\ IdleRec /\ IdleDb /\ IdleRequests

\* g_score = calculate_book_similarity(borrowed_book, candidate)
Compare ==
    /\ pc = "input"
    /\ LET r == calculate_book_similarity(borrowed_book, candidate)
       IN  g_score' = r.score /\ raised' = r.raised
    /\ pc' = "compared"
    /\ UNCHANGED <<requestVars, sortVars, locateVars, findVars, recVars, dbVars,
                   borrowed_book, candidate, stats, h_score>>

\* h_score = calculate_heuristic(candidate, user_preferences, stats)
Estimate ==
    /\ pc = "input"
    /\ h_score' = calculate_heuristic(candidate, stats)
    /\ pc' = "estimated"
    /\ UNCHANGED <<requestVars, raised, sortVars, locateVars, findVars, recVars, dbVars,
                   borrowed_book, candidate, stats, g_score>>

NextScore == Compare \/ Estimate

SpecScore == InitScore /\ [][NextScore]_vars

(***************************************************************************)
(* Properties of the cost functions                                        *)
(***************************************************************************)
\* the year of a record is known: the field is there and holds an integer
HasYear(b) == "year" \in DOMAIN b /\ b["year"].tag = "int"

\* the parts of the similarity cost by the stated weights, in units of 1/Scale
GenreCost ==
    IF Lower(borrowed_book["genre"].s) # Lower(candidate["genre"].s) THEN 40 * Scale ELSE 0
AuthorCost ==
    IF Lower(borrowed_book["author"].s) # Lower(candidate["author"].s) THEN 25 * Scale ELSE 0
TitleCost ==
    LET mine == WordsOf(Lower(borrowed_book["title"].s))
        theirs == WordsOf(Lower(candidate["title"].s))
    IN  IF mine = {} THEN 20 * Scale
        ELSE 20 * Scale - (20 * Scale * Cardinality(mine \cap theirs)) \div Cardinality(mine)

\* what is left of the computed cost for the year
YearCost == g_score - GenreCost - AuthorCost - TitleCost

\* ---------------------------------------------------------------------------
\* C17  For a borrowed book and a candidate with every field present, the
\*      similarity cost is 40 for differing genres + 25 for differing authors
\*      (both compared without case) + min(15, 1.5 * |year difference|) + the
\*      title term 20 * (1 - common words / words of the borrowed title), 20
\*      for a title without words; the year part is at most 15 and the cost
\*      lies in 0..100.
C17_SimilarityIsWeightedSum ==
    (pc = "compared" /\ HasYear(borrowed_book) /\ HasYear(candidate)) =>
        /\ raised = "none"
        /\ YearCost = Min(15 * Scale,
                          (3 * Scale * Abs(borrowed_book["year"].n - candidate["year"].n)) \div 2)
        /\ YearCost <= 15 * Scale
        /\ g_score >= 0
        /\ g_score <= 100 * Scale

\* the penalties of the heuristic by the stated thresholds
AvailabilityPenalty ==
    IF candidate["available_copies"] = Int_(0) THEN 20 * Scale
    ELSE IF candidate["available_copies"] = Int_(1) THEN 10 * Scale ELSE 0
CountOf(b) ==
    IF b["book_id"] \in DOMAIN stats.borrow_counts THEN stats.borrow_counts[b["book_id"]] ELSE 0
PopularityPenalty ==
    IF CountOf(candidate) = 0 THEN 15 * Scale
    ELSE IF CountOf(candidate) < 3 THEN 10 * Scale
    ELSE IF CountOf(candidate) < 10 THEN 5 * Scale ELSE 0
AgePenalty ==
    IF HasYear(candidate)
    THEN LET age == 2024 - candidate["year"].n
         IN  IF age > 50 THEN 15 * Scale
             ELSE IF age > 20 THEN 10 * Scale
             ELSE IF age > 10 THEN 5 * Scale ELSE 0
    ELSE 10 * Scale

\* ---------------------------------------------------------------------------
\* C18  The heuristic cost of a candidate is its availability penalty (20 for
\*      zero copies, 10 for one, else 0) + its popularity penalty (15 for a
\*      borrow count of 0, 10 below 3, 5 below 10, else 0) + its age penalty
\*      on 2024 - year (15 above 50, 10 above 20, 5 above 10, else 0; 10 when
\*      the year is unknown), and lies in 0..50.
C18_HeuristicIsSumOfPenalties ==
    (pc = "estimated" /\ "available_copies" \in DOMAIN candidate) =>
        /\ h_score = AvailabilityPenalty + PopularityPenalty + AgePenalty
        /\ h_score >= 0
        /\ h_score <= 50 * Scale

\* ---------------------------------------------------------------------------
\* C19  When the year of the borrowed book or of the candidate is unknown
\*      (the field is absent or null), the year part of the similarity cost
\*      is the maximum, 15.
C19_UnknownYearCostsFifteen ==
    (pc = "compared" /\ (~HasYear(borrowed_book) \/ ~HasYear(candidate))) =>
        YearCost = 15 * Scale

\* ---------------------------------------------------------------------------
\* C20  With a non-empty history the result is ordered by the pair (total
\*      cost, identifier): of two returned candidates of equal cost the one
\*      with the smaller identifier comes first, every eligible candidate left
\*      out comes after every returned one in that order, and the result is
\*      the same when the pool is given in another order (its first two
\*      records exchanged, or its first record moved to the end: these two
\*      moves generate every order of the pool).
PairBefore(a, b) ==
    \/ CostOf(a) < CostOf(b)
    \/ CostOf(a) = CostOf(b) /\ a["book_id"].n < b["book_id"].n

SwapFirstTwo(pool) ==
    IF Len(pool) < 2 THEN pool ELSE <<pool[2], pool[1]>> \o Drop(pool, 2)

FirstToEnd(pool) ==
    IF Len(pool) < 2 THEN pool ELSE Append(Drop(pool, 1), pool[1])

C20_OrderedByCostThenId ==
    (pc = "recommended" /\ user_borrowed_books # <<>>) =>
        /\ \A i \in 1..(Len(recommendations) - 1) :
              PairBefore(Unscored(recommendations[i]), Unscored(recommendations[i + 1]))
        /\ \A b \in Range(Eligible) :
              b \notin { Unscored(recommendations[i]) : i \in 1..Len(recommendations) } =>
                  \A i \in 1..Len(recommendations) : PairBefore(Unscored(recommendations[i]), b)
        /\ astar_book_recommendations(user_borrowed_books, SwapFirstTwo(all_books), top_n).recommendations
              = recommendations
        /\ astar_book_recommendations(user_borrowed_books, FirstToEnd(all_books), top_n).recommendations
              = recommendations

\* C20 witness: two returned candidates of equal cost stood in the pool in
\* descending order of identifier and were returned in ascending order, and
\* a third of the same cost and a greater identifier, first in the pool, was
\* left out
C20_Witness ==
    /\ pc = "recommended"
    /\ user_borrowed_books # <<>>
    /\ Len(all_books) = 3
    /\ Len(recommendations) = 2
    /\ Unscored(recommendations[1]) = all_books[3]
    /\ Unscored(recommendations[2]) = all_books[2]
    /\ CostOf(all_books[1]) = CostOf(all_books[2])
    /\ CostOf(all_books[2]) = CostOf(all_books[3])
    /\ all_books[1]["book_id"].n > all_books[2]["book_id"].n

\* ---------------------------------------------------------------------------
\* C21  No candidate is left out for missing data: for any history, empty or
\*      not, a candidate not in the history with an absent or null genre,
\*      author, year, title or available_copies is returned whenever top_n
\*      is at least the number of candidates not in the history.
OptionalFields == {"genre", "author", "year", "title", "available_copies"}

LacksData(b) == \E key \in OptionalFields : key \notin DOMAIN b \/ b[key] = None

C21_MissingDataNeverExcludes ==
    (pc = "recommended" /\ top_n >= Len(Eligible)) =>
        \A b \in Range(Eligible) :
            LacksData(b) =>
                \E i \in 1..Len(recommendations) : Unscored(recommendations[i]) = b

\* ---------------------------------------------------------------------------
\* C22  merge_sort_books takes a missing value of the sort field (the field
\*      absent from the record, or null) for the empty string: in the result
\*      such a record stands before every record whose field has a non-empty
\*      string form.
MissingField(b) == field \notin DOMAIN b \/ b[field] = None

HasText(b) == field \in DOMAIN b /\ b[field] # None /\ PyStr(b[field]) # <<>>

C22_MissingSortsFirst ==
    pc = "sorted" =>
        \A i, j \in 1..Len(sorted_books) :
            (MissingField(sorted_books[i]) /\ HasText(sorted_books[j])) => i < j

(***************************************************************************)
(* The four core operations together: a caller that holds the arguments of *)
(* one of them and may call any of them on what it holds.                  *)
(***************************************************************************)
InitCore == InitSort \/ InitLocate \/ InitFind \/ InitRecommend

NextCore == OrderBy \/ OrderByAgain \/ Locate \/ Find \/ Recommend

SpecCore == InitCore /\ [][NextCore]_vars

\* ---------------------------------------------------------------------------
\* C23  merge_sort_books, binary_search_books, simple_search and
\*      astar_book_recommendations leave their arguments as they were: the
\*      same records in the same order, every record with the same fields
\*      and values (no candidate gains a score or a label), and once a sorted
\*      list is returned no later call changes it.
C23_InputsUnchanged ==
    [][/\ books' = books
       /\ field' = field
       /\ search_value' = search_value
       /\ search_term' = search_term
       /\ user_borrowed_books' = user_borrowed_books
       /\ all_books' = all_books
       /\ top_n' = top_n
       /\ (pc # "input" => sorted_books' = sorted_books)]_vars

\* C23 witness: a call has returned two annotated candidates, and the two
\* candidates of the pool have neither a score nor a label
C23_Witness ==
    /\ pc = "recommended"
    /\ Len(recommendations) = 2
    /\ \A i \in 1..2 : "recommendation_score" \in DOMAIN recommendations[i]
    /\ Len(all_books) = 2
    /\ \A i \in 1..2 : /\ "recommendation_score" \notin DOMAIN all_books[i]
                       /\ "match_quality" \notin DOMAIN all_books[i]

(***************************************************************************)
(* The 'year' sort option of the /books and /search pages (src/app.py):    *)
(* merge_sort_books(books, field='year') followed by reverse().  The books *)
(* are rows of the books table: the year is an integer or NULL.            *)
(***************************************************************************)
\* list.reverse()
RECURSIVE reverse(_)
reverse(seq) == IF seq = <<>> THEN <<>> ELSE Append(reverse(Tail(seq)), Head(seq))

YearBookSet ==
    { [book_id |-> Int_(1), title |-> Str(HarryPotter), year |-> Int_(1997)],
      [book_id |-> Int_(2), title |-> Str(T1984), year |-> Int_(1949)],
      [book_id |-> Int_(3), title |-> Str(TheHobbit), year |-> Int_(1997)],
      [book_id |-> Int_(4), title |-> Str(Harry), year |-> Int_(999)],
      [book_id |-> Int_(5), title |-> Str(TheTwoTowers), year |-> None] }

InitNewestFirst ==
    /\ pc = "input"
    /\ raised = "none"
    /\ books \in SeqsUpTo(YearBookSet, MaxLen)
    /\ field = "year"
    /\ sorted_books = NoBooks
    /\ resorted_books = NoBooks
    /\ IdleLocate /\ IdleFind /\ IdleRec /\ IdleDb /\ IdleRequests /\ IdleScore

\* books = merge_sort_books(books, field='year'); books.reverse()
NewestFirst ==
    /\ pc = "input"
    /\ sorted_books' = reverse(merge_sort_books(books, field))
    /\ pc' = "listed"
    /\ UNCHANGED <<requestVars, raised, books, field, resorted_books, locateVars, findVars, recVars,
                   dbVars, scoreVars>>

NextNewestFirst == NewestFirst

SpecNewestFirst == InitNewestFirst /\ [][NextNewestFirst]_vars

\* ---------------------------------------------------------------------------
\* C24  The 'year' sort option lists the books newest first: in the list
\*      that merge_sort_books(books, 'year') followed by reverse() produces,
\*      the numeric years never increase, for books with integer or null
\*      years.
C24_NewestFirst ==
    pc = "listed" =>
        \A i, j \in 1..Len(sorted_books) :
            (i < j /\ sorted_books[i]["year"] # None /\ sorted_books[j]["year"] # None)
                => sorted_books[i]["year"].n >= sorted_books[j]["year"].n

\* ---------------------------------------------------------------------------
\* C25  After any sequence of add_book, borrow_book and return_book calls
\*      (return_book called more than once with the same borrow_id
\*      included), every book has 0 <= available_copies <= total_copies, and
\*      total_copies - available_copies is the number of borrowing rows of
\*      that book whose status is 'borrowed'.
OnLoan(book_id) ==
    Cardinality({id \in DOMAIN borrowing_table :
                    /\ borrowing_table[id].book_id = book_id
                    /\ borrowing_table[id].status = "borrowed"})

C25_CopiesAccounted ==
    \A book_id \in DOMAIN books_table :
        /\ 0 <= books_table[book_id].available_copies
        /\ books_table[book_id].available_copies <= books_table[book_id].total_copies
        /\ books_table[book_id].total_copies - books_table[book_id].available_copies
               = OnLoan(book_id)

(***************************************************************************)
(* Concurrent borrow requests (the /borrow/<book_id> route of src/app.py,  *)
(* served by threads): each request runs borrow_book on a connection of    *)
(* its own (get_connection), and the statements of the requests            *)
(* interleave.  books_table and borrowing_table are the committed tables.  *)
(* A SELECT outside a transaction reads the committed tables.  The INSERT  *)
(* opens the connection's transaction and takes the database's write lock, *)
(* which the connection holds until its commit; while another connection   *)
(* holds it the INSERT waits, and raises sqlite3.OperationalError          *)
(* ("database is locked") when the wait outlasts the connection's timeout. *)
(* The writes of a transaction are in uncommitted until the commit.  The   *)
(* SELECT with its fetchone() and the commit are single steps: the locks   *)
(* they take last for one statement, and a statement that meets them       *)
(* waits for less than the timeout.                                        *)
(***************************************************************************)
MaxRequests == 2
MaxStock == 2

Requests == 1 .. MaxRequests

\* the books table after add_book(..., copies)
Stocked(copies) == add_book(<<>>, copies).books

InitBorrowRace ==
    /\ pc = "serving"
    /\ raised = "none"
    /\ \E copies \in 0 .. MaxStock : books_table = Stocked(copies)
    /\ borrowing_table = <<>>
    /\ call = [op |-> "create_tables"]
    /\ returned = FALSE
    /\ request \in [Requests -> [user_id : UserIds, book_id : 1 .. 2, at : {"select"},
                                 row : {<<>>}, returned : {FALSE}]]
    /\ writer = 0
    /\ uncommitted = <<>>
    /\ IdleSort /\ IdleLocate /\ IdleFind /\ IdleRec /\ IdleScore

\* SELECT available_copies ...; row = cursor.fetchone();
\* if not row or row[0] <= 0: conn.close(); return False
SelectAvailable(r) ==
    /\ request[r].at = "select"
    /\ LET book_id == request[r].book_id
           row == IF book_id \in DOMAIN books_table
                  THEN <<books_table[book_id].available_copies>>
                  ELSE <<>>
       IN  request' = [request EXCEPT ![r].row = row,
                                      ![r].at = IF row = <<>> \/ row[1] <= 0
                                                THEN "returned" ELSE "insert"]
    /\ UNCHANGED <<pc, raised, sortVars, locateVars, findVars, recVars, dbVars, scoreVars,
                   writer, uncommitted>>

\* INSERT INTO borrowing (user_id, book_id, status): the write lock is free
InsertBorrowing(r) ==
    /\ request[r].at = "insert"
    /\ writer = 0
    /\ writer' = r
    /\ uncommitted' = [books |-> books_table,
                       borrowing |-> Append(borrowing_table,
                                            [user_id |-> request[r].user_id,
                                             book_id |-> request[r].book_id,
                                             status |-> "borrowed"])]
    /\ request' = [request EXCEPT ![r].at = "update"]
    /\ UNCHANGED <<pc, raised, sortVars, locateVars, findVars, recVars, dbVars, scoreVars>>

\* the same INSERT while another connection holds the write lock for longer
\* than the timeout: sqlite3.OperationalError leaves borrow_book
InsertBorrowingLocked(r) ==
    /\ request[r].at = "insert"
    /\ writer \notin {0, r}
    /\ request' = [request EXCEPT ![r].at = "raised"]
    /\ raised' = "OperationalError"
    /\ UNCHANGED <<pc, sortVars, locateVars, findVars, recVars, dbVars, scoreVars,
                   writer, uncommitted>>

\* UPDATE books SET available_copies = available_copies - 1
UpdateAvailable(r) ==
    /\ request[r].at = "update"
    /\ writer = r
    /\ uncommitted' = [uncommitted EXCEPT
                          !.books[request[r].book_id].available_copies = @ - 1]
    /\ request' = [request EXCEPT ![r].at = "commit"]
    /\ UNCHANGED <<pc, raised, sortVars, locateVars, findVars, recVars, dbVars, scoreVars,
                   writer>>

\* conn.commit(); conn.close(); return True
CommitBorrow(r) ==
    /\ request[r].at = "commit"
    /\ writer = r
    /\ books_table' = uncommitted.books
    /\ borrowing_table' = uncommitted.borrowing
    /\ writer' = 0
    /\ uncommitted' = <<>>
    /\ request' = [request EXCEPT ![r].at = "returned", ![r].returned = TRUE]
    /\ UNCHANGED <<pc, raised, sortVars, locateVars, findVars, recVars, scoreVars,
                   call, returned>>

NextBorrowRace ==
    \E r \in Requests :
        \/ SelectAvailable(r)
        \/ InsertBorrowing(r)
        \/ InsertBorrowingLocked(r)
        \/ UpdateAvailable(r)
        \/ CommitBorrow(r)

SpecBorrowRace == InitBorrowRace /\ [][NextBorrowRace]_vars

\* ---------------------------------------------------------------------------
\* C26  When borrow requests for the same book run concurrently, each on
\*      its own connection with its steps (read available_copies, insert the
\*      borrowing record, decrement, commit) interleaved with the others',
\*      the number of requests that return True never exceeds the copies
\*      that were available, and available_copies never drops below 0.
Granted(book_id) ==
    Cardinality({r \in Requests : /\ request[r].book_id = book_id
                                  /\ request[r].at = "returned"
                                  /\ request[r].returned})

C26_NoOverBorrowing ==
    \A book_id \in DOMAIN books_table :
        /\ Granted(book_id) <= books_table[book_id].total_copies
        /\ books_table[book_id].available_copies >= 0

====
